---------------------------- MODULE Spec2Model ----------------------------
(***************************************************************************)
(* Model of scripts/load_antolin_db.py: a one-shot loader that reads a     *)
(* semicolon-delimited CSV export of book records and inserts every data   *)
(* row into the table `antolin` through one connection, committing once    *)
(* after the loop.                                                         *)
(*                                                                         *)
(* Python 2 byte strings are sequences of byte values (0..255), unicode    *)
(* strings are sequences of code points.  Values handed to the database    *)
(* are tagged records: None, a byte string, a unicode string or a date.    *)
(***************************************************************************)
EXTENDS Integers, Sequences, FiniteSets, TLC

(***************************************************************************)
(* Bounds of the model.                                                    *)
(***************************************************************************)
\* Longest file, in data rows, built from the sample rows.
MaxRows == 2
\* Long files of identical rows have about k * ProgressEvery rows, k up to
\* MaxHundreds.
MaxHundreds == 2
\* The loader is run at most MaxRuns times against the same table.
MaxRuns == 2

(***************************************************************************)
(* Program constants.                                                      *)
(***************************************************************************)
\* if idx % 100 == 0
ProgressEvery == 100
\* if len(isbn10) != 10
Isbn10Len == 10
\* if len(isbn10f) != 13
Isbn10fLen == 13
\* if len(isbn13) != 13
Isbn13Len == 13
\* if len(isbn13f) != 17
Isbn13fLen == 17
\* (author, ..., bookid) = row : eleven targets
NumFields == 11

(***************************************************************************)
(* Python values.                                                          *)
(***************************************************************************)
None == [t |-> "None"]
Str(bytes) == [t |-> "str", v |-> bytes]
Unicode(cps) == [t |-> "unicode", v |-> cps]
Date(year, month, day) ==
    [t |-> "date", v |-> [year |-> year, month |-> month, day |-> day]]

\* Truth value of an option value: None and '' are false.
Falsy(val) == val.t = "None" \/ (val.t = "str" /\ val.v = <<>>)

(***************************************************************************)
(* since.split('.')                                                        *)
(***************************************************************************)
Dot == 46

RECURSIVE SplitFrom(_, _, _)
\* cur is the part collected so far, i the next position of s to look at.
SplitFrom(s, i, cur) ==
    IF i > Len(s) THEN <<cur>>
    ELSE IF s[i] = Dot THEN <<cur>> \o SplitFrom(s, i + 1, <<>>)
    ELSE SplitFrom(s, i + 1, Append(cur, s[i]))

Split(s) == SplitFrom(s, 1, <<>>)

(***************************************************************************)
(* int(p) for a byte string p: surrounding whitespace is stripped, one     *)
(* optional sign, then at least one decimal digit and nothing else.        *)
(***************************************************************************)
Whitespace == {9, 10, 11, 12, 13, 32}
IsDigit(c) == c \in 48..57

RECURSIVE LStrip(_)
LStrip(s) ==
    IF s # <<>> /\ Head(s) \in Whitespace THEN LStrip(Tail(s)) ELSE s

RECURSIVE RStrip(_)
RStrip(s) ==
    IF s # <<>> /\ s[Len(s)] \in Whitespace
    THEN RStrip(SubSeq(s, 1, Len(s) - 1)) ELSE s

Strip(s) == RStrip(LStrip(s))

HasSign(s) == s # <<>> /\ Head(s) \in {43, 45}
Digits(s) == IF HasSign(s) THEN Tail(s) ELSE s

\* TRUE iff int(p) returns instead of raising ValueError.
IsInt(p) ==
    LET d == Digits(Strip(p))
    IN  d # <<>> /\ \A i \in 1..Len(d) : IsDigit(d[i])

RECURSIVE DigitsValue(_)
DigitsValue(d) ==
    IF d = <<>> THEN 0
    ELSE 10 * DigitsValue(SubSeq(d, 1, Len(d) - 1)) + (d[Len(d)] - 48)

ToInt(p) ==
    LET s == Strip(p)
        n == DigitsValue(Digits(s))
    IN  IF HasSign(s) /\ Head(s) = 45 THEN 0 - n ELSE n

(***************************************************************************)
(* day, month, year = [int(p) for p in since.split('.')]                   *)
(***************************************************************************)
\* TRUE iff the statement raises ValueError: some part is not an integer,
\* or the list does not have exactly three elements to unpack.
SinceRaises(since) ==
    LET parts == Split(since)
    IN  \/ \E i \in 1..Len(parts) : ~IsInt(parts[i])
        \/ Len(parts) # 3

\* The values bound to day, month, year (only when nothing is raised).
ParseSince(since) ==
    LET parts == Split(since)
    IN  [day |-> ToInt(parts[1]), month |-> ToInt(parts[2]),
         year |-> ToInt(parts[3])]

(***************************************************************************)
(* datetime.date(year, month, day)                                         *)
(***************************************************************************)
IsLeap(y) == y % 4 = 0 /\ (y % 100 # 0 \/ y % 400 = 0)

DaysInMonth(y, m) ==
    IF m = 2 THEN (IF IsLeap(y) THEN 29 ELSE 28)
    ELSE IF m \in {4, 6, 9, 11} THEN 30 ELSE 31

\* TRUE iff datetime.date(year, month, day) raises ValueError.
DateRaises(year, month, day) ==
    \/ year \notin 1..9999
    \/ month \notin 1..12
    \/ day \notin 1..DaysInMonth(year, month)

\* MakeDate with day and month exchanged: datetime.date(year, day, month).
MakeDateSwapped(year, month, day) == Date(year, day, month)

\* The three keyword-free arguments of datetime.date, in call order.
MakeDate(year, month, day) == Date(year, month, day)

(***************************************************************************)
(* s.decode('utf-8') of Python 2.7.                                        *)
(***************************************************************************)
IsCont(b) == b \in 128..191

\* Length of the sequence a lead byte announces; 0 for an invalid lead.
Utf8Length(b) ==
    IF b < 128 THEN 1
    ELSE IF b \in 194..223 THEN 2
    ELSE IF b \in 224..239 THEN 3
    ELSE IF b \in 240..244 THEN 4
    ELSE 0

\* TRUE iff a well-formed sequence starts at position i of s.
Utf8Ok(s, i) ==
    LET n == Utf8Length(s[i])
    IN  /\ n > 0
        /\ i + n - 1 <= Len(s)
        /\ \A k \in 1..(n - 1) : IsCont(s[i + k])
        /\ (s[i] = 224 => s[i + 1] >= 160)
        /\ (s[i] = 240 => s[i + 1] >= 144)
        /\ (s[i] = 244 => s[i + 1] <= 143)

\* Code point of the well-formed sequence starting at position i of s.
Utf8CodePoint(s, i) ==
    LET n == Utf8Length(s[i])
    IN  IF n = 1 THEN s[i]
        ELSE IF n = 2 THEN (s[i] - 192) * 64 + (s[i + 1] - 128)
        ELSE IF n = 3 THEN (s[i] - 224) * 4096 + (s[i + 1] - 128) * 64
                            + (s[i + 2] - 128)
        ELSE (s[i] - 240) * 262144 + (s[i + 1] - 128) * 4096
             + (s[i + 2] - 128) * 64 + (s[i + 3] - 128)

RECURSIVE DecodeRaisesFrom(_, _)
DecodeRaisesFrom(s, i) ==
    IF i > Len(s) THEN FALSE
    ELSE IF ~Utf8Ok(s, i) THEN TRUE
    ELSE DecodeRaisesFrom(s, i + Utf8Length(s[i]))

\* TRUE iff s.decode('utf-8') raises UnicodeDecodeError.
DecodeRaises(s) == DecodeRaisesFrom(s, 1)

RECURSIVE DecodeFrom(_, _)
DecodeFrom(s, i) ==
    IF i > Len(s) THEN <<>>
    ELSE <<Utf8CodePoint(s, i)>> \o DecodeFrom(s, i + Utf8Length(s[i]))

\* The unicode string s.decode('utf-8') returns (only when it does not
\* raise).
Decode(s) == Unicode(DecodeFrom(s, 1))


(***************************************************************************)
(* The loop body up to the insert (lines 46-68).                           *)
(***************************************************************************)
\* (author, title, publisher, isbn10, since, grade, read,
\*  isbn13, isbn10f, isbn13f, bookid) = row
Unpack(row) ==
    [author |-> row[1], title |-> row[2], publisher |-> row[3],
     isbn10 |-> row[4], since |-> row[5], grade |-> row[6], read |-> row[7],
     isbn13 |-> row[8], isbn10f |-> row[9], isbn13f |-> row[10],
     bookid |-> row[11]]

\* TRUE iff the unpacking raises ValueError.
UnpackRaises(row) == Len(row) # NumFields

\* Normalise with the test `len(x) < n`: too long a value passes.
NormaliseShortOnly(val, n) == IF Len(val) < n THEN None ELSE Str(val)

\* if len(x) != n: x = None
Normalise(val, n) == IF Len(val) # n THEN None ELSE Str(val)

\* TRUE iff evaluating the arguments of cur.execute raises inside the try
\* block: one of the three decode calls or datetime.date.
ArgsRaise(row) ==
    LET r == Unpack(row)
        d == ParseSince(r.since)
    IN  \/ DecodeRaises(r.author)
        \/ DecodeRaises(r.title)
        \/ DecodeRaises(r.publisher)
        \/ DateRaises(d.year, d.month, d.day)

\* Params with isbn10f and isbn13 exchanged in the tuple.
ParamsSwapped(row) ==
    LET r == Unpack(row)
        d == ParseSince(r.since)
    IN  << Decode(r.author),
           Decode(r.title),
           Decode(r.publisher),
           Normalise(r.isbn10, Isbn10Len),
           Normalise(r.isbn13, Isbn13Len),
           Normalise(r.isbn10f, Isbn10fLen),
           Normalise(r.isbn13f, Isbn13fLen),
           Str(r.bookid),
           MakeDate(d.year, d.month, d.day),
           Str(r.grade),
           Str(r.read) >>

\* The parameter tuple handed to cur.execute, in the order it is written.
Params(row) ==
    LET r == Unpack(row)
        d == ParseSince(r.since)
    IN  << Decode(r.author),
           Decode(r.title),
           Decode(r.publisher),
           Normalise(r.isbn10, Isbn10Len),
           Normalise(r.isbn10f, Isbn10fLen),
           Normalise(r.isbn13, Isbn13Len),
           Normalise(r.isbn13f, Isbn13fLen),
           Str(r.bookid),
           MakeDate(d.year, d.month, d.day),
           Str(r.grade),
           Str(r.read) >>

\* The column list of insert_sql; the i-th %s fills the i-th column.
InsertColumns ==
    << "author", "title", "publisher", "isbn10", "isbn10_formatted",
       "isbn13", "isbn13_formatted", "book_id", "available_since", "grade",
       "num_read" >>

ColumnSet == {InsertColumns[i] : i \in 1..Len(InsertColumns)}

\* The table row an executed insert_sql adds for a parameter tuple.
InsertedRow(params) ==
    [c \in ColumnSet |->
        params[CHOOSE i \in 1..Len(InsertColumns) : InsertColumns[i] = c]]

\* EmitsDot counting the rows from one: a dot once a hundred rows are read.
EmitsDotAfterHundred(i) == (i + 1) % ProgressEvery = 0

\* if idx % 100 == 0
EmitsDot(i) == i % ProgressEvery = 0

\* sys.stdout.write('.') when due.
Progress(out, i) == IF EmitsDot(i) THEN Append(out, ".") ELSE out

(***************************************************************************)
(* Input files.  A file is the sequence of records csv.reader yields, the  *)
(* header first; a record is the sequence of its fields.                   *)
(***************************************************************************)
\* Autor;Titel;Verlag;ISBN-10;Seit;Klasse;Gelesen;ISBN-13;
\* ISBN-10 (formatiert);ISBN-13 (formatiert);Buch-ID
Header ==
    << <<65, 117, 116, 111, 114>>, <<84, 105, 116, 101, 108>>,
       <<86, 101, 114, 108, 97, 103>>, <<73, 83, 66, 78, 45, 49, 48>>,
       <<83, 101, 105, 116>>, <<75, 108, 97, 115, 115, 101>>,
       <<71, 101, 108, 101, 115, 101, 110>>, <<73, 83, 66, 78, 45, 49, 51>>,
       <<73, 83, 66, 78, 45, 49, 48, 32, 40, 102, 111, 114, 109, 97, 116,
         105, 101, 114, 116, 41>>,
       <<73, 83, 66, 78, 45, 49, 51, 32, 40, 102, 111, 114, 109, 97, 116,
         105, 101, 114, 116, 41>>,
       <<66, 117, 99, 104, 45, 73, 68>> >>

\* Michael Ende;Momo;Thienemann;3522168577;5.3.2004;4;120;9783522168571;
\* 3-522-16857-7;978-3-522-16857-1;b1001      (every field well-formed)
RowEnde ==
    << <<77, 105, 99, 104, 97, 101, 108, 32, 69, 110, 100, 101>>,
       <<77, 111, 109, 111>>,
       <<84, 104, 105, 101, 110, 101, 109, 97, 110, 110>>,
       <<51, 53, 50, 50, 49, 54, 56, 53, 55, 55>>,
       <<53, 46, 51, 46, 50, 48, 48, 52>>,
       <<52>>,
       <<49, 50, 48>>,
       <<57, 55, 56, 51, 53, 50, 50, 49, 54, 56, 53, 55, 49>>,
       <<51, 45, 53, 50, 50, 45, 49, 54, 56, 53, 55, 45, 55>>,
       <<57, 55, 56, 45, 51, 45, 53, 50, 50, 45, 49, 54, 56, 53, 55, 45,
         49>>,
       <<98, 49, 48, 48, 49>> >>

\* Astrid Lindgren;Pippi;Oetinger;378911851;3.5.2004;2;7;978378911851;
\* 3-7891-1851-50;978-3-7891-1851;b1002
\* (identifier lengths 9, 12, 14, 15: one off or two off, all four wrong)
RowLindgren ==
    << <<65, 115, 116, 114, 105, 100, 32, 76, 105, 110, 100, 103, 114, 101,
         110>>,
       <<80, 105, 112, 112, 105>>,
       <<79, 101, 116, 105, 110, 103, 101, 114>>,
       <<51, 55, 56, 57, 49, 49, 56, 53, 49>>,
       <<51, 46, 53, 46, 50, 48, 48, 52>>,
       <<50>>,
       <<55>>,
       <<57, 55, 56, 51, 55, 56, 57, 49, 49, 56, 53, 49>>,
       <<51, 45, 55, 56, 57, 49, 45, 49, 56, 53, 49, 45, 53, 48>>,
       <<57, 55, 56, 45, 51, 45, 55, 56, 57, 49, 45, 49, 56, 53, 49>>,
       <<98, 49, 48, 48, 50>> >>

\* Otfried Preu\xc3\x9fler;Krabat;dtv;;31.12.1999;6;0;97834232520870;
\* 3-522-16857-7;978-3-423-25208-75;b1003
\* (valid two-byte UTF-8; isbn10 empty, isbn13 of 14, isbn10f right,
\*  isbn13f of 18)
RowPreussler ==
    << <<79, 116, 102, 114, 105, 101, 100, 32, 80, 114, 101, 117, 195, 159,
         108, 101, 114>>,
       <<75, 114, 97, 98, 97, 116>>,
       <<100, 116, 118>>,
       <<>>,
       <<51, 49, 46, 49, 50, 46, 49, 57, 57, 57>>,
       <<54>>,
       <<48>>,
       <<57, 55, 56, 51, 52, 50, 51, 50, 53, 50, 48, 56, 55, 48>>,
       <<51, 45, 53, 50, 50, 45, 49, 54, 56, 53, 55, 45, 55>>,
       <<57, 55, 56, 45, 51, 45, 52, 50, 51, 45, 50, 53, 50, 48, 56, 45,
         55, 53>>,
       <<98, 49, 48, 48, 51>> >>

\* RowEnde with available_since " 7.08.+2010": int() strips blanks and
\* accepts a sign and leading zeros.
RowPadded ==
    [RowEnde EXCEPT ![5] = <<32, 55, 46, 48, 56, 46, 43, 50, 48, 49, 48>>]

\* RowEnde with the title "Gr\xfcffelo" in Latin-1: not valid UTF-8.
RowLatin1 ==
    [RowEnde EXCEPT ![2] = <<71, 114, 252, 102, 102, 101, 108, 111>>]

\* RowEnde with available_since "2004-03-05": one part, not an integer.
RowIsoDate ==
    [RowEnde EXCEPT ![5] = <<50, 48, 48, 52, 45, 48, 51, 45, 48, 53>>]

\* RowEnde with available_since "1.2.3.4": four integer parts.
RowFourParts == [RowEnde EXCEPT ![5] = <<49, 46, 50, 46, 51, 46, 52>>]

\* RowEnde with available_since "5.x.2004": three parts, one not an integer.
RowNonNumeric ==
    [RowEnde EXCEPT ![5] = <<53, 46, 120, 46, 50, 48, 48, 52>>]

\* RowEnde with available_since "31.2.2004": three integers, no such day.
RowFeb31 == [RowEnde EXCEPT ![5] = <<51, 49, 46, 50, 46, 50, 48, 48, 52>>]

\* A record of ten fields (the last column is missing).
RowShort == SubSeq(RowEnde, 1, 10)

SampleRows ==
    { RowEnde, RowLindgren, RowPreussler, RowPadded, RowLatin1, RowIsoDate,
      RowFourParts, RowNonNumeric, RowFeb31, RowShort }

\* Files of up to MaxRows sample rows after the header.
ShortFiles ==
    UNION { { <<Header>> \o [i \in 1..n |-> f[i]] : f \in [1..n -> SampleRows] }
            : n \in 0..MaxRows }

\* Lengths at and just after the multiples of ProgressEvery.
LongLengths ==
    { k * ProgressEvery + d : k \in 1..MaxHundreds, d \in {0, 1} }

\* Long files: the header and n copies of one well-formed row.
LongFiles == { <<Header>> \o [i \in 1..n |-> RowEnde] : n \in LongLengths }

\* <<>> is the empty file: not even a header.
Files == {<<>>} \cup ShortFiles \cup LongFiles

\* The files read in the runs that prompt for the password: the prompt
\* comes before the file is opened and has no part in what follows.
PromptedFiles == { f \in Files : Len(f) <= 2 }

\* Number of data rows of a file.
NumRows(file) == IF file = <<>> THEN 0 ELSE Len(file) - 1

\* The sets of row indices whose insert the database may reject (constraint
\* violation, type mismatch, ...).  Every choice is taken for the short
\* files; the long files run without rejected inserts.
RejectSets(file) ==
    IF NumRows(file) <= MaxRows THEN SUBSET (0..(NumRows(file) - 1))
    ELSE {{}}

\* Command lines: with or without -p, with or without the csv-file.
Passwords == {None, Str(<<115>>)}
Paths == {<<>>, <<"antolin.csv">>}

(***************************************************************************)
(* State.                                                                  *)
(***************************************************************************)
VARIABLES
    argv,       \* the command line: [password, args]
    lines,      \* the records of the file args[0] names
    rejects,    \* row indices whose insert the database rejects
    table,      \* the committed rows of antolin, visible to everyone
    run,        \* number of the current run of the loader, from 1
    before,     \* table as it was when the current run started
    pc,         \* position of main: start, connect, open, header, loop,
                \* pdb, done, aborted
    prompted,   \* getpass.getpass() was called
    connected,  \* pymysql.connect returned a connection
    idx,        \* index enumerate gives the next row
    pending,    \* rows inserted in the open transaction, not yet committed
    stdout,     \* what was written to standard output
    commits,    \* number of conn.commit() calls
    error,      \* the exception that ended the run, or "none"
    calls,      \* the cur.execute calls made: [idx, params, ok]
    pdbRows     \* indices of the rows whose except clause ran

vars ==
    << argv, lines, rejects, table, run, before, pc, prompted, connected,
       idx, pending, stdout, commits, error, calls, pdbRows >>

\* The inputs and the table: untouched while a run is going on.
world == << argv, lines, rejects, run, before >>

\* The data row enumerate numbers i.
DataRow(i) == lines[i + 2]

Init ==
    /\ argv \in [password : Passwords, args : Paths]
    /\ lines \in (IF argv.args = <<>> THEN {<<>>}
                  ELSE IF Falsy(argv.password) THEN PromptedFiles
                  ELSE Files)
    /\ rejects \in RejectSets(lines)
    /\ table = <<>>
    /\ run = 1
    /\ before = <<>>
    /\ pc = "start"
    /\ prompted = FALSE
    /\ connected = FALSE
    /\ idx = 0
    /\ pending = <<>>
    /\ stdout = <<>>
    /\ commits = 0
    /\ error = "none"
    /\ calls = <<>>
    /\ pdbRows = <<>>

\* An uncaught exception unwinds main: the process ends without commit.
Raise(exc) ==
    /\ pc' = "aborted"
    /\ error' = exc

(***************************************************************************)
(* Lines 25-28: parse the options, prompt for a missing password.          *)
(***************************************************************************)
ParseArgs ==
    /\ pc = "start"
    /\ prompted' = Falsy(argv.password)
    /\ pc' = "connect"
    /\ UNCHANGED << world, table, connected, idx, pending, stdout, commits,
                    error, calls, pdbRows >>

(***************************************************************************)
(* Lines 30-35: open the connection and a cursor.                          *)
(***************************************************************************)
Connect ==
    /\ pc = "connect"
    /\ connected' = TRUE
    /\ pc' = "open"
    /\ UNCHANGED << world, table, prompted, idx, pending, stdout, commits,
                    error, calls, pdbRows >>

\* The server refuses the connection or the credentials.
ConnectFails ==
    /\ pc = "connect"
    /\ Raise("OperationalError")
    /\ UNCHANGED << world, table, prompted, connected, idx, pending, stdout,
                    commits, calls, pdbRows >>

(***************************************************************************)
(* Lines 37-38: open args[0] and build the reader.                         *)
(***************************************************************************)
OpenFile ==
    /\ pc = "open"
    /\ argv.args # <<>>
    /\ pc' = "header"
    /\ UNCHANGED << world, table, prompted, connected, idx, pending, stdout,
                    commits, error, calls, pdbRows >>

\* args is empty: args[0] raises IndexError.
OpenMissingArg ==
    /\ pc = "open"
    /\ argv.args = <<>>
    /\ Raise("IndexError")
    /\ UNCHANGED << world, table, prompted, connected, idx, pending, stdout,
                    commits, calls, pdbRows >>

\* The file cannot be opened.
OpenFails ==
    /\ pc = "open"
    /\ argv.args # <<>>
    /\ Raise("IOError")
    /\ UNCHANGED << world, table, prompted, connected, idx, pending, stdout,
                    commits, calls, pdbRows >>

(***************************************************************************)
(* Line 40: reader.next() drops the header.                                *)
(***************************************************************************)
DropHeader ==
    /\ pc = "header"
    /\ lines # <<>>
    /\ pc' = "loop"
    /\ UNCHANGED << world, table, prompted, connected, idx, pending, stdout,
                    commits, error, calls, pdbRows >>

\* The file has no record at all: reader.next() raises StopIteration.
DropHeaderEmpty ==
    /\ pc = "header"
    /\ lines = <<>>
    /\ Raise("StopIteration")
    /\ UNCHANGED << world, table, prompted, connected, idx, pending, stdout,
                    commits, calls, pdbRows >>

(***************************************************************************)
(* Lines 42-70: one iteration of the loop, by its outcome.                 *)
(***************************************************************************)
\* The loop yields another row; the progress dot is written first.
NextRow ==
    /\ pc = "loop"
    /\ idx < NumRows(lines)
    /\ stdout' = Progress(stdout, idx)
    /\ idx' = idx + 1

\* Lines 46-47: the record does not have eleven fields.
RowUnpackError ==
    /\ NextRow
    /\ UnpackRaises(DataRow(idx))
    /\ Raise("ValueError")
    /\ UNCHANGED << world, table, prompted, connected, pending, commits,
                    calls, pdbRows >>

\* RowSinceError with line 48 inside the try block: the debugger starts.
RowSinceErrorCaught ==
    /\ NextRow
    /\ ~UnpackRaises(DataRow(idx))
    /\ SinceRaises(Unpack(DataRow(idx)).since)
    /\ pdbRows' = Append(pdbRows, idx)
    /\ pc' = "pdb"
    /\ UNCHANGED << world, table, prompted, connected, pending, commits,
                    error, calls >>

\* Line 48: available_since is not three integers.
RowSinceError ==
    /\ NextRow
    /\ ~UnpackRaises(DataRow(idx))
    /\ SinceRaises(Unpack(DataRow(idx)).since)
    /\ Raise("ValueError")
    /\ UNCHANGED << world, table, prompted, connected, pending, commits,
                    calls, pdbRows >>

\* TRUE iff the row gets as far as the try statement of line 58.
ReachesTry(row) == ~UnpackRaises(row) /\ ~SinceRaises(Unpack(row).since)

\* RowArgsError with the arguments built before the try statement: the
\* exception is not caught.
RowArgsErrorUncaught ==
    /\ NextRow
    /\ ReachesTry(DataRow(idx))
    /\ ArgsRaise(DataRow(idx))
    /\ Raise("ValueError")
    /\ UNCHANGED << world, table, prompted, connected, pending, commits,
                    calls, pdbRows >>

\* Lines 58-70: building the arguments raises inside the try block, so
\* cur.execute is not called and the except clause starts the debugger.
RowArgsError ==
    /\ NextRow
    /\ ReachesTry(DataRow(idx))
    /\ ArgsRaise(DataRow(idx))
    /\ pdbRows' = Append(pdbRows, idx)
    /\ pc' = "pdb"
    /\ UNCHANGED << world, table, prompted, connected, pending, commits,
                    error, calls >>

\* Lines 58-70: cur.execute raises; the except clause starts the debugger.
RowExecuteError ==
    /\ NextRow
    /\ ReachesTry(DataRow(idx))
    /\ ~ArgsRaise(DataRow(idx))
    /\ idx \in rejects
    /\ calls' = Append(calls, [idx |-> idx, params |-> Params(DataRow(idx)),
                               ok |-> FALSE])
    /\ pdbRows' = Append(pdbRows, idx)
    /\ pc' = "pdb"
    /\ UNCHANGED << world, table, prompted, connected, pending, commits,
                    error >>

\* RowInserted on a connection in autocommit mode: the row is visible at
\* once.
RowInsertedAutocommit ==
    /\ NextRow
    /\ ReachesTry(DataRow(idx))
    /\ ~ArgsRaise(DataRow(idx))
    /\ idx \notin rejects
    /\ calls' = Append(calls, [idx |-> idx, params |-> Params(DataRow(idx)),
                               ok |-> TRUE])
    /\ table' = Append(table, InsertedRow(Params(DataRow(idx))))
    /\ pc' = "loop"
    /\ UNCHANGED << world, pending, prompted, connected, commits, error,
                    pdbRows >>

\* Lines 58-68: cur.execute adds the row inside the open transaction.
RowInserted ==
    /\ NextRow
    /\ ReachesTry(DataRow(idx))
    /\ ~ArgsRaise(DataRow(idx))
    /\ idx \notin rejects
    /\ calls' = Append(calls, [idx |-> idx, params |-> Params(DataRow(idx)),
                               ok |-> TRUE])
    /\ pending' = Append(pending, InsertedRow(Params(DataRow(idx))))
    /\ pc' = "loop"
    /\ UNCHANGED << world, table, prompted, connected, commits, error,
                    pdbRows >>

(***************************************************************************)
(* Line 70: the interactive debugger.                                      *)
(***************************************************************************)
\* PdbContinue with a `break` at the end of the except clause: the rows
\* that remain are skipped.
PdbContinueBreaks ==
    /\ pc = "pdb"
    /\ pc' = "loop"
    /\ idx' = NumRows(lines)
    /\ UNCHANGED << world, table, prompted, connected, pending, stdout,
                    commits, error, calls, pdbRows >>

\* The operator continues: the loop goes on with the next row.
PdbContinue ==
    /\ pc = "pdb"
    /\ pc' = "loop"
    /\ UNCHANGED << world, table, prompted, connected, idx, pending, stdout,
                    commits, error, calls, pdbRows >>

\* The operator quits: BdbQuit is raised in main and nothing catches it.
PdbQuit ==
    /\ pc = "pdb"
    /\ Raise("BdbQuit")
    /\ UNCHANGED << world, table, prompted, connected, idx, pending, stdout,
                    commits, calls, pdbRows >>

(***************************************************************************)
(* Lines 71-72: the loop is exhausted; commit and print a newline.         *)
(***************************************************************************)
\* Commit that replaces the content of the table by the rows of this run.
CommitReplaces ==
    /\ pc = "loop"
    /\ idx = NumRows(lines)
    /\ table' = pending
    /\ pending' = <<>>
    /\ commits' = commits + 1
    /\ stdout' = Append(stdout, "\n")
    /\ pc' = "done"
    /\ UNCHANGED << world, prompted, connected, idx, error, calls, pdbRows >>

Commit ==
    /\ pc = "loop"
    /\ idx = NumRows(lines)
    /\ table' = table \o pending
    /\ pending' = <<>>
    /\ commits' = commits + 1
    /\ stdout' = Append(stdout, "\n")
    /\ pc' = "done"
    /\ UNCHANGED << world, prompted, connected, idx, error, calls, pdbRows >>

(***************************************************************************)
(* The process has ended (its connection is gone, and with it whatever the *)
(* transaction held); the loader is started again with the same command    *)
(* line against the same table, and the database rejects the same inserts. *)
(***************************************************************************)
Rerun ==
    /\ pc \in {"done", "aborted"}
    /\ run < MaxRuns
    /\ run' = run + 1
    /\ before' = table
    /\ pc' = "start"
    /\ prompted' = FALSE
    /\ connected' = FALSE
    /\ idx' = 0
    /\ pending' = <<>>
    /\ stdout' = <<>>
    /\ commits' = 0
    /\ error' = "none"
    /\ calls' = <<>>
    /\ pdbRows' = <<>>
    /\ UNCHANGED << argv, lines, rejects, table >>

Next ==
    \/ ParseArgs
    \/ Connect
    \/ ConnectFails
    \/ OpenFile
    \/ OpenMissingArg
    \/ OpenFails
    \/ DropHeader
    \/ DropHeaderEmpty
    \/ RowUnpackError
    \/ RowSinceError
    \/ RowArgsError
    \/ RowExecuteError
    \/ RowInserted
    \/ PdbContinue
    \/ PdbQuit
    \/ Commit
    \/ Rerun

Spec == Init /\ [][Next]_vars

(***************************************************************************)
(* Vocabulary of the properties.                                           *)
(***************************************************************************)
\* The CSV columns by position, as the format of the export names them.
CsvColumns ==
    << "author", "title", "publisher", "isbn10", "available_since", "grade",
       "num_read", "isbn13", "isbn10_formatted", "isbn13_formatted",
       "book_id" >>

\* The field of a record that belongs to a column.
Field(row, col) ==
    row[CHOOSE i \in 1..Len(CsvColumns) : CsvColumns[i] = col]

TextColumns == {"author", "title", "publisher"}
IdColumns == {"isbn10", "isbn10_formatted", "isbn13", "isbn13_formatted"}

RequiredLen(col) ==
    CASE col = "isbn10" -> 10
      [] col = "isbn10_formatted" -> 13
      [] col = "isbn13" -> 13
      [] col = "isbn13_formatted" -> 17

\* available_since does not split on '.' into exactly three integers.
BadSince(since) ==
    LET parts == Split(since)
    IN  ~(Len(parts) = 3 /\ \A i \in 1..3 : IsInt(parts[i]))

\* The date "D.M.YYYY" denotes: year third, month second, day first.
ExpectedDate(since) ==
    LET parts == Split(since)
    IN  [t |-> "date",
         v |-> [year |-> ToInt(parts[3]), month |-> ToInt(parts[2]),
                day |-> ToInt(parts[1])]]

\* What a destination column holds for a well-formed record.
ExpectedValue(row, col) ==
    LET f == Field(row, col)
    IN  IF col \in TextColumns THEN Decode(f)
        ELSE IF col \in IdColumns
             THEN (IF Len(f) = RequiredLen(col) THEN Str(f) ELSE None)
        ELSE IF col = "available_since" THEN ExpectedDate(f)
        ELSE Str(f)

ExpectedRow(row) == [col \in ColumnSet |-> ExpectedValue(row, col)]

\* One table row per data row of the file, in file order.
RECURSIVE ExpectedRows(_)
ExpectedRows(rows) ==
    IF rows = <<>> THEN <<>>
    ELSE <<ExpectedRow(Head(rows))>> \o ExpectedRows(Tail(rows))

ExpectedTable == IF lines = <<>> THEN <<>> ELSE ExpectedRows(Tail(lines))

\* A text field of the record is not valid UTF-8.
TextUndecodable(row) ==
    DecodeRaises(row[1]) \/ DecodeRaises(row[2]) \/ DecodeRaises(row[3])

\* The row the loop took last, and the last call of cur.execute.  Every row
\* is the last row, and every call the last call, in the states that follow
\* it until the next row is taken.
LastRow == DataRow(idx - 1)
LastCall == calls[Len(calls)]
LastPdbRow == pdbRows[Len(pdbRows)]

\* The rows the successful calls of this run added, in call order.
RECURSIVE RowsOf(_)
RowsOf(cs) ==
    IF cs = <<>> THEN <<>>
    ELSE IF Head(cs).ok
         THEN <<InsertedRow(Head(cs).params)>> \o RowsOf(Tail(cs))
         ELSE RowsOf(Tail(cs))

OkRows == RowsOf(calls)

\* Number of progress dots written in this run.
Dots == Len(SelectSeq(stdout, LAMBDA c : c = "."))

\* The table row the last successful call added, wherever it is now.
LastStored ==
    IF pending # <<>> THEN pending[Len(pending)] ELSE table[Len(table)]

(***************************************************************************)
(* C1.  The commit happens once, after the last data row, and never before *)
(* or between rows: until then the table shows none of this run's rows,    *)
(* and the commit publishes every successfully executed insert of the run. *)
(***************************************************************************)
C1_SingleFinalCommit ==
    /\ commits = (IF pc = "done" THEN 1 ELSE 0)
    /\ (pc # "done" => table = before)
    /\ (pc = "done" =>
            /\ idx = NumRows(lines)
            /\ pending = <<>>
            /\ table = before \o OkRows)

C1_Witness ==
    /\ pc = "done"
    /\ NumRows(lines) = 2
    /\ Len(calls) = 2
    /\ ~calls[1].ok
    /\ calls[2].ok
    /\ Len(table) = Len(before) + 1

(***************************************************************************)
(* C2.  Each identifier handed to the insert is None when the length of    *)
(* the CSV value differs from 10, 13, 13, 17 (isbn10, isbn10_formatted,    *)
(* isbn13, isbn13_formatted) and is the CSV value itself otherwise; a      *)
(* mismatch raises nothing and does not keep the row from being inserted.  *)
(***************************************************************************)
C2_IdentifierLengths ==
    /\ calls # <<>> =>
        LET row == DataRow(LastCall.idx)
            p == LastCall.params
        IN  /\ p[4] = (IF Len(row[4]) = 10 THEN Str(row[4]) ELSE None)
            /\ p[5] = (IF Len(row[9]) = 13 THEN Str(row[9]) ELSE None)
            /\ p[6] = (IF Len(row[8]) = 13 THEN Str(row[8]) ELSE None)
            /\ p[7] = (IF Len(row[10]) = 17 THEN Str(row[10]) ELSE None)
    /\ (/\ idx > 0
        /\ ReachesTry(LastRow)
        /\ ~ArgsRaise(LastRow)
        /\ idx - 1 \notin rejects)
        => /\ calls # <<>>
           /\ LastCall.idx = idx - 1
           /\ LastCall.ok
           /\ error = "none"

C2_Witness ==
    /\ calls # <<>>
    /\ LastCall.ok
    /\ DataRow(LastCall.idx) = RowPreussler
    /\ LastCall.params[4] = None
    /\ LastCall.params[5] = Str(RowPreussler[9])
    /\ LastStored["isbn13"] = None

(***************************************************************************)
(* C3.  A row whose available_since is not three integers separated by     *)
(* '.' ends the run at that row with an error: no insert is made for it or *)
(* for any later row, nothing is committed, and the rows inserted before   *)
(* it never become visible.                                                *)
(***************************************************************************)
C3_BadDateAborts ==
    /\ [](idx > 0 /\ ~UnpackRaises(LastRow) /\ BadSince(LastRow[5]) =>
            /\ pc = "aborted"
            /\ error = "ValueError"
            /\ (calls # <<>> => LastCall.idx < idx - 1)
            /\ (pdbRows # <<>> => LastPdbRow < idx - 1)
            /\ commits = 0
            /\ table = before)
    /\ [][pc = "aborted" => pc' = "start" /\ table' = table]_vars

C3_Witness ==
    /\ pc = "aborted"
    /\ idx = 2
    /\ NumRows(lines) = 2
    /\ LastRow = RowIsoDate
    /\ Len(pending) = 1
    /\ table = before

(***************************************************************************)
(* C4 as stated.  A text field that cannot be decoded ends the run at that *)
(* row; the except clause of the insert does not handle it.                *)
(***************************************************************************)
C4_DecodeErrorAborts ==
    (idx > 0 /\ ReachesTry(LastRow) /\ TextUndecodable(LastRow)) =>
        /\ pc = "aborted"
        /\ commits = 0
        /\ (pdbRows # <<>> => LastPdbRow < idx - 1)

(***************************************************************************)
(* C4 amended.  A text field that cannot be decoded raises inside the try  *)
(* block: cur.execute is not called for the row, the except clause starts  *)
(* the debugger, and the run ends at that row only if the debugger is      *)
(* quit; when it is continued the loop goes on and the commit is made.     *)
(***************************************************************************)
C4_DecodeErrorCaught ==
    /\ [](idx > 0 /\ ReachesTry(LastRow) /\ TextUndecodable(LastRow) =>
            /\ pdbRows # <<>>
            /\ LastPdbRow = idx - 1
            /\ (calls # <<>> => LastCall.idx < idx - 1)
            /\ pc \in {"pdb", "loop", "done", "aborted"}
            /\ (pc = "aborted" => error = "BdbQuit"))
    /\ [][pc = "pdb" /\ pc' # "aborted" =>
            pc' = "loop" /\ idx' = idx /\ pending' = pending]_vars

C4_Witness ==
    /\ pc = "done"
    /\ commits = 1
    /\ NumRows(lines) = 2
    /\ DataRow(0) = RowLatin1
    /\ pdbRows = <<0>>
    /\ Len(calls) = 1
    /\ LastCall.idx = 1
    /\ LastCall.ok

(***************************************************************************)
(* C5.  Without the csv-file argument the run fails before a connection to *)
(* the database is opened.                                                 *)
(***************************************************************************)
C5_NoConnectionWithoutFile == argv.args = <<>> => ~connected

(***************************************************************************)
(* C6 as stated.  A run that processes N data rows to completion has       *)
(* written floor(N / 100) progress dots.                                   *)
(***************************************************************************)
C6_FloorDots == pc = "done" => Dots = NumRows(lines) \div 100

(***************************************************************************)
(* C6 amended.  A dot is written at the rows 0, 100, 200, ... (counted     *)
(* from 0), so a run that processes N data rows to completion has written  *)
(* ceil(N / 100) dots.                                                     *)
(***************************************************************************)
C6_CeilDots ==
    /\ Dots = Cardinality({i \in 0..(idx - 1) : i % 100 = 0})
    /\ (pc = "done" => Dots = (NumRows(lines) + 99) \div 100)

C6_Witness ==
    /\ pc = "done"
    /\ NumRows(lines) = 101
    /\ Dots = 2

(***************************************************************************)
(* C7.  A run over N well-formed data rows without insertion error appends *)
(* exactly those N rows, in file order and without the header, to whatever *)
(* the table held; run twice on an empty table it leaves 2N rows, every    *)
(* data row twice.                                                         *)
(***************************************************************************)
C7_AppendsEveryRow ==
    (pc = "done" /\ pdbRows = <<>>) =>
        /\ table = before \o ExpectedTable
        /\ Len(table) = Len(before) + NumRows(lines)
        /\ (run = 2 /\ before = ExpectedTable =>
                /\ Len(table) = 2 * NumRows(lines)
                /\ \A i \in 1..NumRows(lines) :
                        /\ table[i] = ExpectedRow(DataRow(i - 1))
                        /\ table[NumRows(lines) + i] = table[i])

C7_Witness ==
    /\ pc = "done"
    /\ run = 2
    /\ pdbRows = <<>>
    /\ lines = <<Header, RowPreussler, RowEnde>>
    /\ before = ExpectedTable
    /\ Len(table) = 4

(***************************************************************************)
(* C8.  Every destination column receives the CSV field of the same        *)
(* meaning, the CSV positions being author, title, publisher, isbn10,      *)
(* available_since, grade, num_read, isbn13, isbn10_formatted,             *)
(* isbn13_formatted, book_id: the reordering swaps no two fields.          *)
(***************************************************************************)
C8_ColumnsMatchFields ==
    calls # <<>> =>
        /\ \A col \in ColumnSet :
                InsertedRow(LastCall.params)[col]
                    = ExpectedValue(DataRow(LastCall.idx), col)
        /\ (LastCall.ok /\ pc # "start" =>
                \A col \in ColumnSet :
                    LastStored[col] = ExpectedValue(DataRow(LastCall.idx), col))

C8_Witness ==
    /\ calls # <<>>
    /\ LastCall.ok
    /\ DataRow(LastCall.idx) = RowEnde
    /\ LastStored["isbn10_formatted"] = Str(RowEnde[9])
    /\ LastStored["isbn13"] = Str(RowEnde[8])
    /\ LastStored["book_id"] = Str(RowEnde[11])

(***************************************************************************)
(* C9.  For available_since "D.M.YYYY" the date handed to the insert has   *)
(* the third component as year, the second as month and the first as day:  *)
(* "5.3.2004" gives 2004-03-05.                                            *)
(***************************************************************************)
C9_DayMonthYear ==
    calls # <<>> =>
        LET since == DataRow(LastCall.idx)[5]
            date == LastCall.params[9]
        IN  /\ date = ExpectedDate(since)
            /\ (since = <<53, 46, 51, 46, 50, 48, 48, 52>> =>
                    date.v = [year |-> 2004, month |-> 3, day |-> 5])
            /\ (since = <<51, 46, 53, 46, 50, 48, 48, 52>> =>
                    date.v = [year |-> 2004, month |-> 5, day |-> 3])
            /\ (since = <<51, 49, 46, 49, 50, 46, 49, 57, 57, 57>> =>
                    date.v = [year |-> 1999, month |-> 12, day |-> 31])

C9_Witness ==
    /\ calls # <<>>
    /\ LastCall.ok
    /\ DataRow(LastCall.idx)[5] = <<53, 46, 51, 46, 50, 48, 48, 52>>
    /\ LastStored["available_since"] = Date(2004, 3, 5)

(***************************************************************************)
(* C10.  An insert that raises starts the debugger instead of ending the   *)
(* run, and its row is not added; when the debugger is continued the loop  *)
(* goes on with the next row, and the commit after the last row publishes  *)
(* exactly the rows whose inserts succeeded.                               *)
(***************************************************************************)
C10_InsertErrorEntersDebugger ==
    /\ [](/\ (calls # <<>> /\ ~LastCall.ok /\ LastCall.idx = idx - 1 =>
                /\ pdbRows # <<>>
                /\ LastPdbRow = idx - 1
                /\ pc \in {"pdb", "loop", "done", "aborted"}
                /\ (pc = "aborted" => error = "BdbQuit"))
          /\ (pc = "pdb" => pending = OkRows /\ table = before)
          /\ (pc = "done" =>
                /\ idx = NumRows(lines)
                /\ commits = 1
                /\ table = before \o OkRows))
    /\ [][pc = "pdb" /\ pc' # "aborted" =>
            /\ pc' = "loop"
            /\ idx' = idx
            /\ pending' = pending
            /\ commits' = 0]_vars

C10_Witness ==
    /\ pc = "done"
    /\ NumRows(lines) = 2
    /\ rejects = {0}
    /\ Len(calls) = 2
    /\ ~calls[1].ok
    /\ calls[2].ok
    /\ table = before \o <<ExpectedRow(DataRow(1))>>

=============================================================================
